---- MODULE Spec2Model ----
(***************************************************************************)
(* State-machine model of the Simple Webhook plugin (main.ts, kept here as *)
(* src/unnamed/part_000).  The plugin listens to vault and workspace       *)
(* events of its host, builds a payload and POSTs it to settings.webhookUrl.*)
(*                                                                         *)
(* Strings the code manipulates (URLs: trim; paths: split on "/") are      *)
(* sequences of one-character strings, so that trim and split are computed *)
(* rather than assumed.  The awaits of the size lookup and of fetch are    *)
(* suspension points: a handler is one action up to such an await and one  *)
(* action per resumption, and other handlers run in between.  A settings   *)
(* handler is one action together with its saveSettings and the refresh    *)
(* that follows it.                                                        *)
(***************************************************************************)
EXTENDS Integers, Sequences, FiniteSets, Bags, TLC

VARIABLES settings, ribbonIconEl, tasks, last

vars == <<settings, ribbonIconEl, tasks, last>>

-----------------------------------------------------------------------------
(* Bounds of the model *)

\* async functions suspended on an await at one time
MaxInFlight == 1
\* longest URL typed into the settings tab or found in the stored data
MaxUrlLen == 2
\* deepest old path of a rename event, in segments
MaxDepth == 2
\* async functions suspended at one time once the host delivers an event to
\* a handler that has an invocation suspended (SpecOverlap)
MaxOverlap == 2

-----------------------------------------------------------------------------
(* Strings *)

RECURSIVE SeqsUpTo(_, _)
SeqsUpTo(S, n) ==
  IF n = 0 THEN {<<>>}
  ELSE LET shorter == SeqsUpTo(S, n - 1)
       IN shorter \cup {Append(s, c) : s \in {t \in shorter : Len(t) = n - 1}, c \in S}

\* String.prototype.trim with " " as the only white space of the alphabet
RECURSIVE TrimLeft(_)
TrimLeft(s) == IF s # <<>> /\ Head(s) = " " THEN TrimLeft(Tail(s)) ELSE s

RECURSIVE TrimRight(_)
TrimRight(s) ==
  IF s # <<>> /\ s[Len(s)] = " " THEN TrimRight(SubSeq(s, 1, Len(s) - 1)) ELSE s

trim(s) == TrimRight(TrimLeft(s))

\* path.split("/"): the segments between the separators, at least one
RECURSIVE split(_, _)
split(s, sep) ==
  IF \A i \in 1..Len(s) : s[i] # sep THEN <<s>>
  ELSE LET i == CHOOSE j \in 1..Len(s) : s[j] = sep /\ \A k \in 1..(j - 1) : s[k] # sep
       IN <<SubSeq(s, 1, i - 1)>> \o split(SubSeq(s, i + 1, Len(s)), sep)

\* the first segment in place of the last
getNameFromPathFirst(path) ==
  LET parts == split(path, "/")
  IN parts[1]

getNameFromPath(path) ==
  LET parts == split(path, "/")
  IN parts[Len(parts)]

-----------------------------------------------------------------------------
(* Settings *)

DEFAULT_SETTINGS ==
  [webhookUrl |-> <<>>, enabled |-> TRUE, showNotices |-> FALSE, autoMode |-> TRUE,
   sendOnFileOpen |-> FALSE, sendOnLeafChange |-> FALSE]

\* what the text field of the settings tab can hand to onChange
UrlInputs == SeqsUpTo({" ", "u"}, MaxUrlLen)

\* what loadData() can return: nothing, or a stored (possibly hand-edited) record
StoredData ==
  {[x \in {} |-> TRUE],
   [webhookUrl |-> <<" ">>],
   [webhookUrl |-> <<" ", "u">>, showNotices |-> TRUE],
   [webhookUrl |-> <<"u">>, showNotices |-> TRUE, autoMode |-> FALSE]}

\* Object.assign({}, DEFAULT_SETTINGS, data)
loadSettings(data) ==
  [k \in DOMAIN DEFAULT_SETTINGS |-> IF k \in DOMAIN data THEN data[k] ELSE DEFAULT_SETTINGS[k]]

canUseManualControls(s) == s.enabled /\ ~s.autoMode

\* the ribbon icon after refreshManualControls, given whether it existed
refreshManualControls(s, ribbon) ==
  IF canUseManualControls(s)
  THEN (IF ~ribbon THEN TRUE ELSE ribbon)
  ELSE (IF ribbon THEN FALSE ELSE ribbon)

\* the URL check without its trim
UrlMissingUntrimmed(s) == s.webhookUrl = <<>>

UrlMissing(s) == s.webhookUrl = <<>> \/ trim(s.webhookUrl) = <<>>

\* shouldSend without its check of enabled
shouldSendIgnoringEnabled(s, manual) ==
  IF ~manual /\ ~s.autoMode THEN FALSE
  ELSE IF UrlMissing(s) THEN FALSE
  ELSE TRUE

\* shouldSend: the verdict
shouldSend(s, manual) ==
  IF ~s.enabled THEN FALSE
  ELSE IF ~manual /\ ~s.autoMode THEN FALSE
  ELSE IF UrlMissing(s) THEN FALSE
  ELSE TRUE

\* the notices of a shouldSend that checks the URL before autoMode
shouldSendNoticesUrlFirst(s, manual) ==
  IF ~s.enabled THEN <<>>
  ELSE IF UrlMissing(s) /\ s.showNotices THEN <<[text |-> "url-not-configured", status |-> 0]>>
  ELSE <<>>

\* shouldSend: the notices it shows on the way
shouldSendNotices(s, manual) ==
  IF ~s.enabled THEN <<>>
  ELSE IF ~manual /\ ~s.autoMode THEN <<>>
  ELSE IF UrlMissing(s) /\ s.showNotices THEN <<[text |-> "url-not-configured", status |-> 0]>>
  ELSE <<>>

-----------------------------------------------------------------------------
(* Host objects handed to the handlers *)

\* a TFile, a TFolder (a TAbstractFile that is no TFile) and the absent file
NestedFile == [type |-> "file", path |-> <<"d", "/", "n">>, name |-> <<"n">>, extension |-> "md"]
Folder == [type |-> "folder", path |-> <<"d">>, name |-> <<"d">>, extension |-> "none"]
NoFile == [type |-> "null", path |-> <<>>, name |-> <<>>, extension |-> "none"]

VaultItems == {NestedFile, Folder}
MaybeFiles == {NestedFile, NoFile}

\* old paths of a rename: the note "ol" at the root or below folders "d"
RECURSIVE PathAtDepth(_)
PathAtDepth(n) == IF n <= 1 THEN <<"o", "l">> ELSE <<"d", "/">> \o PathAtDepth(n - 1)

OldPaths == {PathAtDepth(n) : n \in 1..MaxDepth}

\* the size reported as absent
Null == -1

\* adapter.stat(path): a stat with a size, no stat, or a rejection
StatResults == {[kind |-> "stat", size |-> 10], [kind |-> "undefined", size |-> Null],
                [kind |-> "throws", size |-> Null]}

\* a getFileSizeSafe that reports 0 where there is no size
getFileSizeSafeZero(res) ==
  IF res.kind = "throws" THEN 0
  ELSE IF res.kind = "undefined" THEN 0
  ELSE res.size

\* getFileSizeSafe, given what adapter.stat did
getFileSizeSafe(res) ==
  IF res.kind = "throws" THEN Null
  ELSE IF res.kind = "undefined" THEN Null
  ELSE res.size

\* fetch: a response (ok or not) or a rejection
FetchResults == {[kind |-> "response", ok |-> TRUE, status |-> 200],
                 [kind |-> "response", ok |-> FALSE, status |-> 500],
                 [kind |-> "throws", ok |-> FALSE, status |-> 0]}

NoResult == [kind |-> "none", ok |-> FALSE, status |-> 0]

VaultEventTypes == {"modify", "create", "delete", "rename"}
AsyncVaultEventTypes == {"modify", "create", "delete"}
WorkspaceEventTypes == {"file-open", "leaf-change"}

-----------------------------------------------------------------------------
(* Payloads (the timestamp is left out: time is not part of the model) *)

\* FilePayload with the event kind fixed to "modify"
FilePayloadAlwaysModify(event, file, size) ==
  [event |-> "modify", vaultName |-> "vault", path |-> file.path, name |-> file.name,
   extension |-> file.extension, size |-> size]

FilePayload(event, file, size) ==
  [event |-> event, vaultName |-> "vault", path |-> file.path, name |-> file.name,
   extension |-> file.extension, size |-> size]

RenamePayload(file, oldPath) ==
  [event |-> "rename", vaultName |-> "vault", oldPath |-> oldPath, newPath |-> file.path,
   oldName |-> getNameFromPath(oldPath), newName |-> file.name]

TestPayload ==
  ("_event" :> "test") @@ ("message" :> "Simple Webhook test payload")
  @@ ("vaultName" :> "vault")

NoPayload == [event |-> "none"]

-----------------------------------------------------------------------------
(* Delivery *)

Notice(text, status) == [text |-> text, status |-> status]

\* a sendWebhook without its check of the URL
sendWebhookPostsUnchecked(s, body) ==
  <<[url |-> trim(s.webhookUrl), body |-> body]>>

\* sendWebhook up to its await: the POST it issues, if any
sendWebhookPosts(s, body) ==
  LET url == trim(s.webhookUrl)
  IN IF url = <<>> THEN <<>> ELSE <<[url |-> url, body |-> body]>>

\* sendWebhook after its await: the notices it shows
sendWebhookNotices(s, res) ==
  IF res.kind = "response"
  THEN (IF ~res.ok /\ s.showNotices THEN <<Notice("http-status", res.status)>> ELSE <<>>)
  ELSE (IF s.showNotices THEN <<Notice("request-failed", 0)>> ELSE <<>>)

\* sendWebhook after its await: what it writes with console.error
sendWebhookConsole(s, res) ==
  IF res.kind = "throws" /\ s.showNotices THEN <<"Simple Webhook error:">> ELSE <<>>

-----------------------------------------------------------------------------
(* Suspended invocations.  tasks is the bag of the async functions that    *)
(* are suspended on an await:                                              *)
(*   fn "handleFileEvent", "handleWorkspaceFileTrigger" or                 *)
(*      "triggerManualWebhook", on the size lookup, with the payload built *)
(*      so far;                                                            *)
(*   fn "sendWebhook", on fetch, called and not awaited by a vault or      *)
(*      workspace handler, which has returned;                             *)
(*   fn "triggerManualWebhook", on the sendWebhook it awaits;              *)
(*   fn "sendTest", the click handler of the test button, on fetch.        *)
(* sent counts the POSTs issued for the trigger the invocation serves.     *)
(* last describes the step just taken: the trigger delivered or the        *)
(* function resumed, what it was handed (item, oldPath; stat, res: how the *)
(* size lookup or the fetch settled), the POSTs it issued, the notices it  *)
(* showed, what it wrote to the console, whether the work for the trigger  *)
(* is over (done) and the POSTs issued for that trigger in all (sent).     *)

Task(fn, await, body, sent) == [fn |-> fn, await |-> await, body |-> body, sent |-> sent]

\* no invocation left suspended
Returned == Task("none", "none", NoPayload, 0)

NoStep ==
  [op |-> "onload", kind |-> "none", fn |-> "none", item |-> NoFile, oldPath |-> <<>>,
   posts |-> <<>>, notices |-> <<>>, console |-> <<>>, stat |-> "none", res |-> NoResult,
   done |-> TRUE, sent |-> 0]

CanSuspend == BagCardinality(tasks) < MaxInFlight

\* after onload: settings loaded, the ribbon refreshed, nothing in flight
Init ==
  /\ settings \in {loadSettings(d) : d \in StoredData}
  /\ ribbonIconEl = refreshManualControls(settings, FALSE)
  /\ tasks = EmptyBag
  /\ last = NoStep

\* a handler runs up to its first await (task: the invocation left
\* suspended) or to its end (task = Returned)
Started(kind, item, oldPath, shown, issued, task) ==
  /\ tasks' = IF task = Returned THEN tasks ELSE tasks (+) SetToBag({task})
  /\ last' = [NoStep EXCEPT !.op = "deliver", !.kind = kind, !.fn = task.fn, !.item = item,
                            !.oldPath = oldPath, !.posts = issued, !.notices = shown,
                            !.done = (task = Returned), !.sent = Len(issued)]
  /\ UNCHANGED <<settings, ribbonIconEl>>

\* the host delivers a trigger and its handler runs
Deliver(kind, item, oldPath, shown, issued, task) ==
  /\ CanSuspend
  /\ Started(kind, item, oldPath, shown, issued, task)

\* handleFileEvent up to its await
handleFileEventStarted(event, file) ==
  Started(event, file, <<>>, shouldSendNotices(settings, FALSE), <<>>,
          IF ~shouldSend(settings, FALSE) THEN Returned
          ELSE IF file.type # "file" THEN Returned
          ELSE Task("handleFileEvent", "stat", FilePayload(event, file, Null), 0))

\* the vault callbacks of modify, create and delete
handleFileEvent(event, file) ==
  /\ CanSuspend
  /\ handleFileEventStarted(event, file)

\* the invocations of a handler suspended on the size lookup for an event
\* of this kind
Suspended(fn, event) ==
  {t \in BagToSet(tasks) : t.fn = fn /\ t.await = "stat" /\ t.body.event = event}

\* the same callbacks, called while an earlier invocation of the same
\* callback is suspended on the size lookup: the callback returns the
\* promise of handleFileEvent to a host that takes it for void, so nothing
\* holds the next event back
handleFileEventOverlapping(event, file) ==
  /\ Suspended("handleFileEvent", event) # {}
  /\ BagCardinality(tasks) < MaxOverlap
  /\ handleFileEventStarted(event, file)

\* handleRenameEvent: no await, sendWebhook is called and left running
handleRenameEvent(file, oldPath) ==
  LET payload == RenamePayload(file, oldPath)
      sends == shouldSend(settings, FALSE) /\ file.type = "file"
      issued == IF sends THEN sendWebhookPosts(settings, payload) ELSE <<>>
  IN Deliver("rename", file, oldPath, shouldSendNotices(settings, FALSE), issued,
             IF issued = <<>> THEN Returned
             ELSE Task("sendWebhook", "fetch", NoPayload, Len(issued)))

\* the two callbacks reading each other's toggle
WorkspaceToggleSwapped(s, label) ==
  IF label = "file-open" THEN s.sendOnLeafChange ELSE s.sendOnFileOpen

\* the per-event toggle the workspace callback reads
WorkspaceToggle(s, label) ==
  IF label = "file-open" THEN s.sendOnFileOpen ELSE s.sendOnLeafChange

\* the notices of handleWorkspaceFileTrigger
workspaceNotices(s) ==
  IF ~s.enabled THEN <<>>
  ELSE IF UrlMissing(s) /\ s.showNotices THEN <<Notice("url-not-configured", 0)>>
  ELSE <<>>

\* the file-open / active-leaf-change callbacks and handleWorkspaceFileTrigger
\* up to its await
handleWorkspaceFileTrigger(label, file) ==
  IF ~WorkspaceToggle(settings, label) \/ file.type # "file"
  THEN Deliver(label, file, <<>>, <<>>, <<>>, Returned)
  ELSE Deliver(label, file, <<>>, workspaceNotices(settings), <<>>,
               IF ~settings.enabled THEN Returned
               ELSE IF UrlMissing(settings) THEN Returned
               ELSE Task("handleWorkspaceFileTrigger", "stat",
                         FilePayload(label, file, Null), 0))

\* a triggerManualWebhook that calls shouldSend() without manual = true
triggerManualWebhookAsAutomatic(source, file) ==
  IF file.type # "file"
  THEN Deliver(source, file, <<>>, <<Notice("no-active-note", 0)>>, <<>>, Returned)
  ELSE Deliver(source, file, <<>>, shouldSendNotices(settings, FALSE), <<>>,
               IF ~shouldSend(settings, FALSE) THEN Returned
               ELSE Task("triggerManualWebhook", "stat",
                         FilePayload("modify", file, Null), 0))

\* triggerManualWebhook up to its await; file is workspace.getActiveFile()
triggerManualWebhook(source, file) ==
  IF file.type # "file"
  THEN Deliver(source, file, <<>>, <<Notice("no-active-note", 0)>>, <<>>, Returned)
  ELSE Deliver(source, file, <<>>, shouldSendNotices(settings, TRUE), <<>>,
               IF ~shouldSend(settings, TRUE) THEN Returned
               ELSE Task("triggerManualWebhook", "stat",
                         FilePayload("modify", file, Null), 0))

\* the command "send-webhook-on-save-now": checkCallback, then the send
SendNowCommand(file) ==
  /\ canUseManualControls(settings)
  /\ triggerManualWebhook("command", file)

\* a click on the ribbon icon, while it exists
RibbonClick(file) ==
  /\ ribbonIconEl
  /\ triggerManualWebhook("ribbon", file)

\* a test button gated by enabled like the event handlers
sendTestPostsIfEnabled(s) ==
  LET url == trim(s.webhookUrl)
  IN IF url = <<>> \/ ~s.enabled THEN <<>> ELSE <<[url |-> url, body |-> TestPayload]>>

\* the POST of the "Send test" button, if any
sendTestPosts(s) ==
  LET url == trim(s.webhookUrl)
  IN IF url = <<>> THEN <<>> ELSE <<[url |-> url, body |-> TestPayload]>>

\* the "Send test" button up to its await
SendTest ==
  LET issued == sendTestPosts(settings)
  IN Deliver("test", NoFile, <<>>,
             IF issued = <<>> THEN <<Notice("test-configure-url", 0)>> ELSE <<>>,
             issued,
             IF issued = <<>> THEN Returned
             ELSE Task("sendTest", "fetch", NoPayload, Len(issued)))

\* a resumption that ends every suspended invocation of the handler, as if
\* the invocations shared one payload
StatReturnsEndingAll(t, res) ==
  /\ BagIn(t, tasks)
  /\ t.await = "stat"
  /\ LET payload == [t.body EXCEPT !.size = getFileSizeSafe(res)]
         issued == sendWebhookPosts(settings, payload)
         total == t.sent + Len(issued)
         manual == t.fn = "triggerManualWebhook"
         next == IF issued = <<>> THEN Returned
                 ELSE Task(IF manual THEN t.fn ELSE "sendWebhook", "fetch", NoPayload, total)
         others == [u \in {v \in BagToSet(tasks) : v # t} |-> CopiesIn(u, tasks)]
     IN /\ tasks' = IF next = Returned THEN others ELSE others (+) SetToBag({next})
        /\ last' = [NoStep EXCEPT !.op = "stat-returns", !.kind = t.body.event, !.fn = t.fn,
                      !.stat = res.kind, !.posts = issued,
                      !.notices = IF manual /\ issued = <<>>
                                  THEN <<Notice("manual-sent", 0)>> ELSE <<>>,
                      !.done = (next = Returned), !.sent = total]
  /\ UNCHANGED <<settings, ribbonIconEl>>

\* a handler resumes when getFileSizeSafe returns: the payload gets its
\* size and sendWebhook runs up to its own await
StatReturns(t, res) ==
  /\ BagIn(t, tasks)
  /\ t.await = "stat"
  /\ LET payload == [t.body EXCEPT !.size = getFileSizeSafe(res)]
         issued == sendWebhookPosts(settings, payload)
         total == t.sent + Len(issued)
         manual == t.fn = "triggerManualWebhook"
         next == IF issued = <<>> THEN Returned
                 ELSE Task(IF manual THEN t.fn ELSE "sendWebhook", "fetch", NoPayload, total)
     IN /\ tasks' = IF next = Returned THEN tasks (-) SetToBag({t})
                    ELSE (tasks (-) SetToBag({t})) (+) SetToBag({next})
        /\ last' = [NoStep EXCEPT !.op = "stat-returns", !.kind = t.body.event, !.fn = t.fn,
                      !.stat = res.kind, !.posts = issued,
                      \* triggerManualWebhook goes on after a sendWebhook that sent nothing
                      !.notices = IF manual /\ issued = <<>>
                                  THEN <<Notice("manual-sent", 0)>> ELSE <<>>,
                      !.done = (next = Returned), !.sent = total]
  /\ UNCHANGED <<settings, ribbonIconEl>>

\* a sendWebhook that POSTs again when the fetch failed
FetchReturnsRetrying(t, res) ==
  /\ BagIn(t, tasks)
  /\ t.await = "fetch"
  /\ t.fn # "sendTest"
  /\ LET failed == res.kind = "throws" \/ ~res.ok
         again == IF failed THEN sendWebhookPosts(settings, NoPayload) ELSE <<>>
     IN /\ tasks' = IF again = <<>> THEN tasks (-) SetToBag({t})
                    ELSE (tasks (-) SetToBag({t}))
                         (+) SetToBag({Task(t.fn, "fetch", NoPayload, t.sent + 1)})
        /\ last' = [NoStep EXCEPT !.op = "fetch-returns", !.fn = t.fn, !.res = res,
                      !.posts = again,
                      !.notices = sendWebhookNotices(settings, res),
                      !.console = sendWebhookConsole(settings, res),
                      !.done = (again = <<>>), !.sent = t.sent + Len(again)]
  /\ UNCHANGED <<settings, ribbonIconEl>>

\* a sendWebhook that turns enabled off when the fetch was rejected
FetchReturnsDisabling(t, res) ==
  /\ BagIn(t, tasks)
  /\ t.await = "fetch"
  /\ t.fn # "sendTest"
  /\ tasks' = tasks (-) SetToBag({t})
  /\ last' = [NoStep EXCEPT !.op = "fetch-returns", !.fn = t.fn, !.res = res,
                !.notices = sendWebhookNotices(settings, res),
                !.console = sendWebhookConsole(settings, res),
                !.done = TRUE, !.sent = t.sent]
  /\ settings' = IF res.kind = "throws" THEN [settings EXCEPT !.enabled = FALSE] ELSE settings
  /\ UNCHANGED ribbonIconEl

\* sendWebhook resumes when fetch settles
FetchReturns(t, res) ==
  /\ BagIn(t, tasks)
  /\ t.await = "fetch"
  /\ t.fn # "sendTest"
  /\ tasks' = tasks (-) SetToBag({t})
  /\ last' = [NoStep EXCEPT !.op = "fetch-returns", !.fn = t.fn, !.res = res,
                !.notices = sendWebhookNotices(settings, res)
                            \o (IF t.fn = "triggerManualWebhook"
                                THEN <<Notice("manual-sent", 0)>> ELSE <<>>),
                !.console = sendWebhookConsole(settings, res),
                !.done = TRUE, !.sent = t.sent]
  /\ UNCHANGED <<settings, ribbonIconEl>>

\* the click handler of the "Send test" button resumes when its fetch settles
TestFetchReturns(t, res) ==
  /\ BagIn(t, tasks)
  /\ t.await = "fetch"
  /\ t.fn = "sendTest"
  /\ tasks' = tasks (-) SetToBag({t})
  /\ last' = [NoStep EXCEPT !.op = "fetch-returns", !.kind = "test", !.fn = t.fn, !.res = res,
                !.notices = IF res.kind = "throws" THEN <<Notice("test-unable", 0)>>
                            ELSE IF res.ok THEN <<Notice("test-sent", 0)>>
                            ELSE <<Notice("test-failed", res.status)>>,
                !.console = IF res.kind = "throws" THEN <<"Simple Webhook test error">>
                            ELSE <<>>,
                !.done = TRUE, !.sent = t.sent]
  /\ UNCHANGED <<settings, ribbonIconEl>>

-----------------------------------------------------------------------------
(* Settings writers *)

\* the command "toggle-webhook-on-save"
ToggleCommand ==
  /\ settings' = [settings EXCEPT !.enabled = ~settings.enabled]
  /\ last' = [NoStep EXCEPT !.op = "toggle-command",
                !.notices = IF settings.showNotices
                            THEN <<Notice(IF ~settings.enabled THEN "enabled" ELSE "disabled", 0)>>
                            ELSE <<>>]
  /\ UNCHANGED <<ribbonIconEl, tasks>>

\* a change made in the settings tab: the field is written and saved
SettingsTab(field, value) ==
  /\ settings' = [settings EXCEPT ![field] = value]
  /\ last' = [NoStep EXCEPT !.op = "settings-tab"]
  /\ UNCHANGED tasks

\* the Webhook URL text field storing what was typed as it is
SetWebhookUrlUntrimmed(value) ==
  /\ SettingsTab("webhookUrl", value)
  /\ UNCHANGED ribbonIconEl

\* the Webhook URL text field
SetWebhookUrl(value) ==
  /\ SettingsTab("webhookUrl", trim(value))
  /\ UNCHANGED ribbonIconEl

\* the autoMode toggle without the refresh of the manual controls
SetAutoModeNoRefresh(value) ==
  /\ SettingsTab("autoMode", value)
  /\ UNCHANGED ribbonIconEl

\* the "Vault event webhooks" toggle, with the refresh that follows the save
SetAutoMode(value) ==
  /\ SettingsTab("autoMode", value)
  /\ ribbonIconEl' = refreshManualControls(settings', ribbonIconEl)

SetSendOnFileOpen(value) ==
  /\ SettingsTab("sendOnFileOpen", value)
  /\ UNCHANGED ribbonIconEl

SetSendOnLeafChange(value) ==
  /\ SettingsTab("sendOnLeafChange", value)
  /\ UNCHANGED ribbonIconEl

SetShowNotices(value) ==
  /\ SettingsTab("showNotices", value)
  /\ UNCHANGED ribbonIconEl

-----------------------------------------------------------------------------

Next ==
  \/ \E e \in AsyncVaultEventTypes, f \in VaultItems : handleFileEvent(e, f)
  \/ \E f \in VaultItems, p \in OldPaths : handleRenameEvent(f, p)
  \/ \E l \in WorkspaceEventTypes, f \in MaybeFiles : handleWorkspaceFileTrigger(l, f)
  \/ \E f \in MaybeFiles : SendNowCommand(f)
  \/ \E f \in MaybeFiles : RibbonClick(f)
  \/ SendTest
  \/ \E t \in BagToSet(tasks), r \in StatResults : StatReturns(t, r)
  \/ \E t \in BagToSet(tasks), r \in FetchResults : FetchReturns(t, r)
  \/ \E t \in BagToSet(tasks), r \in FetchResults : TestFetchReturns(t, r)
  \/ ToggleCommand
  \/ \E v \in UrlInputs : SetWebhookUrl(v)
  \/ SetAutoMode(~settings.autoMode)
  \/ SetSendOnFileOpen(~settings.sendOnFileOpen)
  \/ SetSendOnLeafChange(~settings.sendOnLeafChange)
  \/ SetShowNotices(~settings.showNotices)

Spec == Init /\ [][Next]_vars

\* the same program under a host that also delivers a vault event while the
\* handler of an earlier event of that kind is suspended
NextOverlap ==
  \/ Next
  \/ \E e \in AsyncVaultEventTypes, f \in VaultItems : handleFileEventOverlapping(e, f)

SpecOverlap == Init /\ [][NextOverlap]_vars

-----------------------------------------------------------------------------
(* Vocabulary of the properties.  A delivery or a resumption leaves the    *)
(* settings as they are, so in the state after such a step `settings` are  *)
(* the settings the step ran under.                                        *)

Delivered(kinds) == last.op = "deliver" /\ last.kind \in kinds

ManualKinds == {"command", "ribbon"}

RouterKinds == VaultEventTypes \cup WorkspaceEventTypes \cup ManualKinds

UrlSet == trim(settings.webhookUrl) # <<>>

EventOf(body) == IF "event" \in DOMAIN body THEN body.event ELSE "none"

HasMarker(body) == "_event" \in DOMAIN body

Count(notes, text) == Cardinality({i \in 1..Len(notes) : notes[i].text = text})

\* at most one POST for any trigger, so far
AtMostOnePost ==
  /\ Len(last.posts) <= 1
  /\ last.sent <= 1
  /\ \A t \in BagToSet(tasks) : t.sent <= 1

\* the step just taken issued exactly one POST, with this event field
PostedOnce(event) ==
  /\ Len(last.posts) = 1
  /\ EventOf(last.posts[1].body) = event
  /\ last.sent = 1

\* the step just taken left a handler suspended on the size lookup, its
\* payload built for this event and nothing sent yet
AwaitsSize(event) ==
  /\ ~last.done
  /\ last.posts = <<>>
  /\ \E t \in BagToSet(tasks) :
       t.fn = last.fn /\ t.await = "stat" /\ t.body.event = event /\ t.sent = 0

-----------------------------------------------------------------------------
(* C1 *)

C1_AtDelivery ==
  /\ Delivered({"rename"}) /\ last.item.type = "file" /\ settings.enabled /\ settings.autoMode
       /\ UrlSet
     => PostedOnce("rename")
  /\ Delivered(AsyncVaultEventTypes) /\ last.item.type = "file" /\ settings.enabled
       /\ settings.autoMode /\ UrlSet
     => AwaitsSize(last.kind)
  /\ AtMostOnePost

\* C1, as claimed: a modify, create, delete or rename event delivered for a
\* file while enabled and autoMode are true and the URL is non-empty issues
\* exactly one POST, whose event field is the kind of the event.  A rename
\* issues it at delivery; the other three suspend on the size lookup (only
\* events that passed this gate do) and issue it when the lookup returns.
C1_ExactlyOnePost ==
  /\ C1_AtDelivery
  /\ last.op = "stat-returns" /\ last.fn = "handleFileEvent" => PostedOnce(last.kind)

\* C1, amended: as claimed, except that the POST of a modify, create or
\* delete event is issued only if the URL is still non-empty when the size
\* lookup returns; if the URL was cleared meanwhile the event issues none.
C1_OnePostIfUrlStillSet ==
  /\ C1_AtDelivery
  /\ last.op = "stat-returns" /\ last.fn = "handleFileEvent"
     => IF UrlSet THEN PostedOnce(last.kind) ELSE last.posts = <<>> /\ last.sent = 0 /\ last.done

C1_Witness ==
  /\ last.op = "stat-returns"
  /\ last.fn = "handleFileEvent"
  /\ last.kind = "delete"
  /\ PostedOnce("delete")
  /\ settings.enabled /\ settings.autoMode

-----------------------------------------------------------------------------
(* C2 *)

\* C2, as claimed: while enabled is false no step issues a POST, whichever
\* trigger it serves and also when the flag went off while the handler was
\* suspended.
C2_NoPostWhileDisabled == ~settings.enabled => last.posts = <<>>

\* C2, amended: a vault event, focus event, manual command or ribbon click
\* delivered while enabled is false issues no POST and leaves no handler
\* suspended, so it issues none later either.  (The test button is not
\* gated by enabled, and a handler suspended on the size lookup does not
\* read enabled again.)
C2_NoPostForEventsWhileDisabled ==
  Delivered(RouterKinds) /\ ~settings.enabled
  => last.posts = <<>> /\ last.sent = 0 /\ last.done

C2_Witness ==
  /\ Delivered({"ribbon"})
  /\ last.item.type = "file"
  /\ ~settings.enabled
  /\ UrlSet
  /\ last.done

-----------------------------------------------------------------------------
(* C3 *)

ConfigNotices(notes) == Count(notes, "url-not-configured") + Count(notes, "test-configure-url")

\* C3, as claimed: a triggering event delivered while the URL is empty or
\* only white space issues no POST and shows exactly one
\* configuration-missing notice if showNotices is on, none if it is off.
\* Stated for the events that are triggers on any reading: the vault events
\* of a file.
C3_NoticeWheneverUrlMissing ==
  Delivered(VaultEventTypes) /\ last.item.type = "file" /\ ~UrlSet
  => /\ last.posts = <<>>
     /\ ConfigNotices(last.notices) = IF settings.showNotices THEN 1 ELSE 0

\* the handler gets as far as its check of the URL
ReachesUrlCheck ==
  \/ Delivered(VaultEventTypes) /\ settings.enabled /\ settings.autoMode
  \/ Delivered({"file-open"}) /\ settings.sendOnFileOpen /\ last.item.type = "file"
       /\ settings.enabled
  \/ Delivered({"leaf-change"}) /\ settings.sendOnLeafChange /\ last.item.type = "file"
       /\ settings.enabled
  \/ Delivered(ManualKinds) /\ last.item.type = "file" /\ settings.enabled

\* C3, amended: a trigger delivered while the URL is empty or only white
\* space issues no POST, then or later.  A vault, focus or manual trigger
\* shows exactly one "webhook URL not configured" notice if showNotices is
\* on and its handler gets as far as the URL check (enabled is true; autoMode
\* is on for a vault event; the per-event toggle is on and a file is given
\* for a focus event; a note is active for a manual send), and none
\* otherwise.  The test button shows its own "configure the webhook URL
\* first" notice whatever showNotices is.
C3_NoticeIfUrlCheckReached ==
  last.op = "deliver" /\ ~UrlSet
  => /\ last.posts = <<>> /\ last.sent = 0
     /\ last.done
     /\ Count(last.notices, "url-not-configured")
          = IF settings.showNotices /\ ReachesUrlCheck THEN 1 ELSE 0
     /\ Count(last.notices, "test-configure-url") = IF last.kind = "test" THEN 1 ELSE 0

C3_Witness ==
  /\ Delivered({"modify"})
  /\ settings.webhookUrl = <<" ">>
  /\ settings.showNotices
  /\ last.notices = <<Notice("url-not-configured", 0)>>
  /\ last.posts = <<>>

-----------------------------------------------------------------------------
(* C4 *)

\* C4: a modify, create, delete or rename event delivered while autoMode is
\* off does nothing: no POST, no notice, nothing on the console and no
\* handler left suspended, whatever the URL and showNotices are.
C4_AutoOffDoesNothing ==
  Delivered(VaultEventTypes) /\ ~settings.autoMode
  => /\ last.posts = <<>> /\ last.sent = 0
     /\ last.notices = <<>>
     /\ last.console = <<>>
     /\ last.done

C4_Witness ==
  /\ Delivered({"rename"})
  /\ last.item.type = "file"
  /\ ~settings.autoMode
  /\ settings.enabled
  /\ settings.showNotices
  /\ ~UrlSet

-----------------------------------------------------------------------------
(* C5 *)

\* name is what follows the last "/" of path, or path itself if it has none
IsFinalSegment(name, path) ==
  /\ Len(name) <= Len(path)
  /\ SubSeq(path, Len(path) - Len(name) + 1, Len(path)) = name
  /\ \A i \in 1..Len(name) : name[i] # "/"
  /\ Len(name) < Len(path) => path[Len(path) - Len(name)] = "/"

\* C5: a POST with a rename payload is issued by the delivery of a rename
\* event and by nothing else; its oldPath is the old path of that event, its
\* newPath and newName are the path and the name of the renamed file, and
\* its oldName is the final "/"-separated segment of oldPath.
C5_RenamePayload ==
  /\ Delivered({"rename"}) /\ last.posts # <<>> => EventOf(last.posts[1].body) = "rename"
  /\ \A i \in 1..Len(last.posts) :
       LET body == last.posts[i].body
       IN EventOf(body) = "rename"
          => /\ Delivered({"rename"})
             /\ body.oldPath = last.oldPath
             /\ body.newPath = last.item.path
             /\ body.newName = last.item.name
             /\ IsFinalSegment(body.oldName, last.oldPath)

C5_Witness ==
  /\ Delivered({"rename"})
  /\ last.oldPath = <<"d", "/", "o", "l">>
  /\ Len(last.posts) = 1
  /\ last.posts[1].body.oldName = <<"o", "l">>
  /\ last.posts[1].body.newPath = <<"d", "/", "n">>
  /\ last.posts[1].body.newName = <<"n">>

-----------------------------------------------------------------------------
(* C6 *)

\* C6: the "Send test" button issues exactly one POST, carrying _event =
\* "test", whenever the URL is non-empty, whatever enabled and autoMode are,
\* and none when the URL is empty; its resumption issues no second one; and
\* no POST of any other trigger carries the _event field.
C6_TestPost ==
  /\ Delivered({"test"})
     => IF UrlSet
        THEN /\ Len(last.posts) = 1
             /\ HasMarker(last.posts[1].body)
             /\ last.posts[1].body["_event"] = "test"
             /\ last.sent = 1
        ELSE last.posts = <<>> /\ last.sent = 0 /\ last.done
  /\ last.op = "fetch-returns" /\ last.fn = "sendTest"
     => last.posts = <<>> /\ last.sent = 1 /\ last.done
  /\ \A i \in 1..Len(last.posts) :
       HasMarker(last.posts[i].body) <=> Delivered({"test"})

C6_Witness ==
  /\ Delivered({"test"})
  /\ ~settings.enabled
  /\ ~settings.autoMode
  /\ Len(last.posts) = 1
  /\ HasMarker(last.posts[1].body)

-----------------------------------------------------------------------------
(* C7 *)

\* C7: delivery is a single attempt.  No trigger has more than one POST
\* issued for it; a POST is issued only by the delivery of a trigger or by
\* the resumption of its handler after the size lookup; and when a fetch
\* settles, with success, a non-success status or an exception, the work for
\* that trigger ends without another POST.  Hence the POSTs of a run never
\* outnumber its triggers.
C7_SingleAttempt ==
  /\ AtMostOnePost
  /\ last.posts # <<>> => last.op \in {"deliver", "stat-returns"} /\ last.sent = 1
  /\ last.op = "fetch-returns" => last.posts = <<>> /\ last.sent = 1 /\ last.done
  /\ \A t \in BagToSet(tasks) : t.await = "fetch" <=> t.sent = 1

C7_Witness ==
  /\ last.op = "fetch-returns"
  /\ last.fn = "sendWebhook"
  /\ last.res.kind = "throws"
  /\ last.sent = 1
  /\ last.done
  /\ tasks = EmptyBag

-----------------------------------------------------------------------------
(* C8 *)

\* C8: when the fetch of sendWebhook rejects, the error is logged and the
\* generic failure notice is shown exactly when showNotices is on; when it
\* resolves with a non-success status, a notice with the status code is
\* shown exactly when showNotices is on.
C8_FailureLoggedAndNoticed ==
  last.op = "fetch-returns" /\ last.fn # "sendTest"
  => /\ last.res.kind = "throws"
        => /\ last.console # <<>>
           /\ Count(last.notices, "request-failed") = IF settings.showNotices THEN 1 ELSE 0
     /\ last.res.kind = "response" /\ ~last.res.ok
        => /\ Count(last.notices, "http-status") = IF settings.showNotices THEN 1 ELSE 0
           /\ \A i \in 1..Len(last.notices) :
                last.notices[i].text = "http-status" => last.notices[i].status = last.res.status

-----------------------------------------------------------------------------
(* C9 *)

SettingsWriters == {"settings-tab", "toggle-command"}

\* C9: only the settings tab and the toggle command write the settings: a
\* step that delivers a trigger or resumes a handler, a failing one
\* included (empty URL, non-success response, rejected fetch, failed size
\* lookup), leaves all six fields as they were.
C9_OnlyWritersChangeSettings ==
  [][settings' # settings => last'.op \in SettingsWriters]_vars

C9_Witness ==
  /\ last.op = "fetch-returns"
  /\ last.res.kind = "throws"
  /\ settings.showNotices
  /\ last.console # <<>>

-----------------------------------------------------------------------------
(* C10 *)

\* C10: whenever the ribbon icon exists, autoMode is off.
C10_RibbonOnlyIfAutoOff == ribbonIconEl => ~settings.autoMode

C10_Witness ==
  /\ ribbonIconEl
  /\ ~settings.autoMode
  /\ ~settings.enabled
  /\ last.op = "toggle-command"

-----------------------------------------------------------------------------
(* C11 *)

Trimmed(url) == url = trim(url)

-----------------------------------------------------------------------------
(* C12 *)

RECURSIVE Copies(_, _)
Copies(S, bag) ==
  IF S = {} THEN 0
  ELSE LET t == CHOOSE u \in S : TRUE IN CopiesIn(t, bag) + Copies(S \ {t}, bag)

\* the invocations that were suspended and no longer are
Ended ==
  Copies({t \in BagToSet(tasks) : CopiesIn(t, tasks') < CopiesIn(t, tasks)}, tasks)
  - Copies({t \in BagToSet(tasks) : CopiesIn(t, tasks') < CopiesIn(t, tasks)}, tasks')

-----------------------------------------------------------------------------
(* C13 *)

\* C13: a modify, create, delete or rename event delivered for an item that
\* is not a file (a folder) is ignored: it issues no POST, shows no notice
\* and leaves no handler suspended, whatever the settings are.
C13_FolderIgnored ==
  Delivered(VaultEventTypes) /\ last.item.type # "file"
  => /\ last.posts = <<>> /\ last.sent = 0
     /\ last.notices = <<>>
     /\ last.done

-----------------------------------------------------------------------------
(* C14 *)

LookupFailed == last.op = "stat-returns" /\ last.stat \in {"undefined", "throws"}

\* the step just taken issued one POST of a file payload without a size
PostedWithoutSize ==
  /\ PostedOnce(last.kind)
  /\ last.posts[1].body.size = Null

\* C14, as claimed: when the size lookup of a handler that passed the gate
\* rejects or returns nothing, the handler still issues its POST, with the
\* size absent.  Stated for the handler of the vault events.
C14_SentDespiteFailedLookup ==
  LookupFailed /\ last.fn = "handleFileEvent" => PostedWithoutSize

\* C14, amended: when the size lookup rejects or returns nothing, the
\* handler goes on as after a lookup that succeeded: it issues its one POST,
\* with the size absent, if the URL is non-empty at that moment, and none if
\* the URL was cleared meanwhile.  The size is absent only then.
C14_FailedLookupSendsAsUsual ==
  /\ LookupFailed => IF UrlSet THEN PostedWithoutSize ELSE last.posts = <<>> /\ last.done
  /\ last.op = "stat-returns" /\ last.stat = "stat" /\ UrlSet
     => PostedOnce(last.kind) /\ last.posts[1].body.size # Null

C14_Witness ==
  /\ LookupFailed
  /\ last.stat = "throws"
  /\ last.fn = "handleFileEvent"
  /\ PostedWithoutSize
  /\ last.posts[1].body.path = NestedFile.path

-----------------------------------------------------------------------------
(* C15 *)

\* the per-event toggle of the focus event just delivered
OwnToggle ==
  IF last.kind = "file-open" THEN settings.sendOnFileOpen ELSE settings.sendOnLeafChange

C15_AtDelivery ==
  /\ Delivered(WorkspaceEventTypes) /\ last.item.type = "file"
     => /\ IF OwnToggle /\ settings.enabled /\ UrlSet
           THEN AwaitsSize(last.kind)
           ELSE last.posts = <<>> /\ last.sent = 0 /\ last.done
        /\ ~OwnToggle => last.notices = <<>> /\ last.console = <<>>
  /\ \A i \in 1..Len(last.posts) :
       EventOf(last.posts[i].body) \in WorkspaceEventTypes
       => /\ last.op = "stat-returns"
          /\ last.fn = "handleWorkspaceFileTrigger"
          /\ last.kind = EventOf(last.posts[i].body)

\* C15, as claimed: a file-open or leaf-change event with a file issues a
\* POST only if its own toggle is on, enabled is true and the URL is
\* non-empty (only then is its handler left suspended on the size lookup,
\* and only that handler issues a POST with this event field); under those
\* conditions it issues exactly one POST, with event "file-open" or
\* "leaf-change", whatever autoMode is; with its toggle off nothing is sent
\* or shown.
C15_FocusEventPostsOnce ==
  /\ C15_AtDelivery
  /\ last.op = "stat-returns" /\ last.fn = "handleWorkspaceFileTrigger"
     => PostedOnce(last.kind)

\* C15, amended: as claimed, except that the one POST is issued when the
\* size lookup returns and only if the URL is still non-empty then; if the
\* URL was cleared meanwhile the event issues none.
C15_FocusEventPostsOnceIfUrlStillSet ==
  /\ C15_AtDelivery
  /\ last.op = "stat-returns" /\ last.fn = "handleWorkspaceFileTrigger"
     => /\ last.kind \in WorkspaceEventTypes
        /\ IF UrlSet THEN PostedOnce(last.kind)
           ELSE last.posts = <<>> /\ last.sent = 0 /\ last.done

C15_Witness ==
  /\ last.op = "stat-returns"
  /\ last.fn = "handleWorkspaceFileTrigger"
  /\ PostedOnce("leaf-change")
  /\ ~settings.autoMode
  /\ settings.sendOnLeafChange
  /\ ~settings.sendOnFileOpen

-----------------------------------------------------------------------------
(* C16 *)

C16_AtDelivery ==
  /\ Delivered(ManualKinds)
     => IF last.item.type = "file" /\ settings.enabled /\ UrlSet
        THEN AwaitsSize("modify")
        ELSE last.posts = <<>> /\ last.sent = 0 /\ last.done
  /\ Delivered({"command"}) => settings.enabled /\ ~settings.autoMode

\* the step just taken issued one POST, a "modify" payload of the active note
PostedActiveNote ==
  /\ PostedOnce("modify")
  /\ last.posts[1].body.path = NestedFile.path
  /\ last.posts[1].body.name = NestedFile.name

\* C16, as claimed: the manual send (command or ribbon) issues exactly one
\* POST, with event "modify" and the active note as its file, when a note
\* is active, enabled is true and the URL is non-empty, whatever autoMode
\* is; it issues none, then or later, when no note is active, enabled is
\* false or the URL is empty; and the command runs only while enabled is
\* true and autoMode is false.
C16_ManualSendPostsOnce ==
  /\ C16_AtDelivery
  /\ last.op = "stat-returns" /\ last.fn = "triggerManualWebhook" => PostedActiveNote

\* C16, amended: as claimed, except that the one POST is issued when the
\* size lookup returns and only if the URL is still non-empty then; if the
\* URL was cleared meanwhile the manual send issues none.
C16_ManualSendPostsOnceIfUrlStillSet ==
  /\ C16_AtDelivery
  /\ last.op = "stat-returns" /\ last.fn = "triggerManualWebhook"
     => IF UrlSet THEN PostedActiveNote ELSE last.posts = <<>> /\ last.sent = 0

C16_Witness ==
  /\ last.op = "stat-returns"
  /\ last.fn = "triggerManualWebhook"
  /\ PostedActiveNote
  /\ settings.enabled
  /\ ~settings.autoMode

-----------------------------------------------------------------------------
(* C17 *)

\* C17: between operations the ribbon icon exists exactly when the manual
\* controls are usable, that is when enabled is true and autoMode is false.
C17_RibbonIffManualUsable == ribbonIconEl <=> (settings.enabled /\ ~settings.autoMode)

-----------------------------------------------------------------------------
(* C18 *)

EventHandlers == {"handleFileEvent", "handleWorkspaceFileTrigger"}

====
